---- MODULE Spec2Model ----
(***************************************************************************)
(* TrucoMaster: the game engine of components/Game.tsx (a React component  *)
(* holding one GameState, mutated by click handlers, timers and the        *)
(* continuations of asynchronous opponent decisions), with the pure rules   *)
(* of utils/gameLogic.ts and the decision validation of                     *)
(* services/geminiService.ts.                                               *)
(*                                                                          *)
(* One step of the model is one handler, timer callback or continuation     *)
(* run to completion, together with the React effects its state update      *)
(* triggers.  Time is discrete; one tick is 100 ms.                         *)
(***************************************************************************)
EXTENDS Bags, FiniteSets, Integers, Naturals, Sequences, TLC

VARIABLES
    gameState,       \* useState<GameState>  (Game.tsx 69-86)
    isAIProcessing,  \* useRef(false)        (Game.tsx 94)
    pending,         \* bag of timers and decision requests not yet run
    crashed,         \* an exception escaped a state updater or the render
    handNo,          \* number of startNewHand calls so far
    lastOp           \* the handler that made the last step (history)

vars == <<gameState, isAIProcessing, pending, crashed, handNo, lastOp>>

----------------------------------------------------------------------------
(* Bounds of the model *)

\* startNewHand runs at most MaxHands times (MaxHandsBet under SpecBet,
\* MaxHandsPlay under SpecPlay, MaxHandsAI under SpecAI, MaxHandsDraw under
\* SpecDraw, MaxHandsPush under SpecPush, MaxHandsRun under SpecRun,
\* MaxHandsEleven under SpecEleven).
MaxHands == 1
MaxHandsBet == 2
MaxHandsPlay == 2
MaxHandsAI == 1
MaxHandsDraw == 1
MaxHandsPush == 2
MaxHandsRun == 1
MaxHandsEleven == 1
MaxHandsDeal == 1
MaxHandsLadder == 2
\* the other hands of the human that a state is compared with are drawn
\* from the cards 0 .. MaxOtherCard
MaxOtherCard == 3
\* Math.random() in shuffle is drawn from (MaxSeed + 1) squared sequences
MaxSeed == 2
\* At most MaxPending timers and requests are outstanding at a time.
MaxPending == 2
\* A decision takes at most MaxLatency ticks beyond the delay the caller
\* awaits before asking for it (0: the local fallbackLogic answers at once).
MaxLatency == 0

----------------------------------------------------------------------------
(* Program constants *)

MAX_SCORE == 12
\* setTimeout delays, in milliseconds
DealDelayMs == 500
ThinkDelayMs == 300
ThinkJitterMs == 500
TrickDelayMs == 700
HandDelayMs == 100
TrucoDelayMs == 1000

Ticks(ms) == ms \div 100

\* JavaScript null / undefined for a number-valued or card-valued expression
null == 0
NoCard == 0 - 1

----------------------------------------------------------------------------
(* utils/gameLogic.ts *)

\* A card is its index in the unshuffled deck of createDeck: suits in the
\* order DIAMONDS, SPADES, HEARTS, CLUBS, ranks in the order of the Rank enum
\* (4 5 6 7 Q J K A 2 3), which is also BASE_ORDER.
Cards == 0 .. 39
RankOf(c) == c % 10
SuitOf(c) == c \div 10

\* getManilhaRank without the wrap from 3 back to 4: BASE_ORDER[10] is no
\* rank at all.
getManilhaRankNoWrap(viraRank) == viraRank + 1

getManilhaRank(viraRank) == (viraRank + 1) % 10

calculatePower(card, vira) ==
    IF RankOf(card) = getManilhaRank(RankOf(vira))
    THEN 100 + SuitOf(card)
    ELSE RankOf(card)

\* The result of Array.find when no element matches.
Undefined == [card |-> NoCard, player |-> "none", faceDown |-> FALSE]

\* determineWinner in which a card played face down still competes with
\* its power against a card played face up.
determineWinnerHidden(p1, p2, vira) ==
    IF p1 = Undefined \/ p2 = Undefined THEN "draw"
    ELSE IF p1.faceDown /\ p2.faceDown THEN "draw"
    ELSE IF calculatePower(p1.card, vira) > calculatePower(p2.card, vira) THEN p1.player
    ELSE IF calculatePower(p2.card, vira) > calculatePower(p1.card, vira) THEN p2.player
    ELSE "draw"

determineWinner(p1, p2, vira) ==
    IF p1 = Undefined \/ p2 = Undefined THEN "draw"
    ELSE IF p1.faceDown /\ p2.faceDown THEN "draw"
    ELSE IF p1.faceDown THEN p2.player
    ELSE IF p2.faceDown THEN p1.player
    ELSE IF calculatePower(p1.card, vira) > calculatePower(p2.card, vira) THEN p1.player
    ELSE IF calculatePower(p2.card, vira) > calculatePower(p1.card, vira) THEN p2.player
    ELSE "draw"

getAvailableTrucoAction(current) ==
    IF current = 1 THEN 3
    ELSE IF current = 3 THEN 6
    ELSE IF current = 6 THEN 9
    ELSE IF current = 9 THEN 12
    ELSE null

\* createDeck before the shuffle: one card per suit and rank, suit by suit.
UnshuffledDeck == [k \in 1 .. 40 |-> k - 1]

\* [array[i], array[j]] = [array[j], array[i]], i and j 0-based
Swap(array, i, j) ==
    [array EXCEPT ![i + 1] = array[j + 1], ![j + 1] = array[i + 1]]

\* shuffle that copies array[j] over array[i] instead of exchanging them.
RECURSIVE shuffleOverwriteFrom(_, _, _)
shuffleOverwriteFrom(array, i, js) ==
    IF i <= 0 THEN array
    ELSE shuffleOverwriteFrom([array EXCEPT ![i + 1] = array[js[i] + 1]], i - 1, js)

shuffleOverwrite(array, js) == shuffleOverwriteFrom(array, Len(array) - 1, js)

\* The Fisher-Yates loop from index i down to 1; js[i] is
\* Math.floor(Math.random() * (i + 1)) at index i.
RECURSIVE shuffleFrom(_, _, _)
shuffleFrom(array, i, js) ==
    IF i <= 0 THEN array
    ELSE shuffleFrom(Swap(array, i, js[i]), i - 1, js)

shuffle(array, js) == shuffleFrom(array, Len(array) - 1, js)

createDeck(js) == shuffle(UnshuffledDeck, js)

\* The sequences of random draws the model shuffles with: at index i the
\* draw (a * (i div 2) + b * (i div 3)) mod (i + 1), which is in 0 .. i as
\* Math.floor(Math.random() * (i + 1)) is.
Draws(a, b) == [i \in 1 .. 39 |-> (a * (i \div 2) + b * (i \div 3)) % (i + 1)]

----------------------------------------------------------------------------
(* Sequence helpers standing for the JavaScript array methods used *)

\* array.filter((_, i) => i !== index), index 0-based
RemoveAt(s, index) ==
    [i \in 1 .. (Len(s) - 1) |-> IF i <= index THEN s[i] ELSE s[i + 1]]

\* array.find(c => c.player === who)
RECURSIVE Find(_, _)
Find(s, who) ==
    IF s = <<>> THEN Undefined
    ELSE IF Head(s).player = who THEN Head(s)
    ELSE Find(Tail(s), who)

\* Stable insertion of card c into a hand sorted by increasing power.
RECURSIVE InsertByPower(_, _, _)
InsertByPower(c, s, vira) ==
    IF s = <<>> THEN <<c>>
    ELSE IF calculatePower(c, vira) < calculatePower(Head(s), vira)
         THEN <<c>> \o s
         ELSE <<Head(s)>> \o InsertByPower(c, Tail(s), vira)

\* pHand.sort((a, b) => calculatePower(a, vira) - calculatePower(b, vira))
RECURSIVE SortByPower(_, _)
SortByPower(s, vira) ==
    IF s = <<>> THEN <<>>
    ELSE InsertByPower(s[Len(s)], SortByPower(SubSeq(s, 1, Len(s) - 1), vira), vira)

CountOf(s, w) == Cardinality({i \in DOMAIN s : s[i] = w})

----------------------------------------------------------------------------
(* services/geminiService.ts: the decision returned by getAIMove *)

ActionNames == {"PLAY", "TRUCO", "ACCEPT", "RUN", "RAISE", "FOLD"}

\* What the remote model may answer: any action of the response schema, with
\* cardIndex absent (hasIndex = FALSE), negative, in range or too large.
RawMoves ==
    [action : ActionNames, hasIndex : BOOLEAN, cardIndex : (0 - 1) .. 3]

\* The fields of the GameState object passed to getAIMove that it reads to
\* validate or choose a move.
Snapshot(g) ==
    [currentStakes |-> g.currentStakes, scoreAI |-> g.scoreAI,
     phase |-> g.phase, aiHandLen |-> Len(g.aiHand)]

\* getAIMove on the remote path: card index validation, then Rule 11.
\* st is the snapshot of the GameState object the caller passed.
ValidateMove(raw, st) ==
    LET idx == IF raw.action = "PLAY"
                  /\ (~raw.hasIndex \/ raw.cardIndex < 0
                      \/ raw.cardIndex >= st.aiHandLen)
               THEN 0 ELSE raw.cardIndex
    IN  IF raw.action \in {"TRUCO", "RAISE"} /\ st.scoreAI >= 11
        THEN IF st.phase = "TRUCO_PROPOSAL_PLAYER"
             THEN [action |-> "ACCEPT", cardIndex |-> idx]
             ELSE [action |-> "PLAY", cardIndex |-> 0]
        ELSE [action |-> raw.action, cardIndex |-> idx]

\* fallbackLogic: wantsTruco stands for Math.random() < trucoChance and
\* pick for Math.floor(Math.random() * ai.hand.length).
fallbackLogic(st, wantsTruco, pick) ==
    LET canTruco == st.currentStakes < 6 /\ ~(st.scoreAI >= 11)
    IN  IF canTruco /\ wantsTruco
        THEN [action |-> "TRUCO", cardIndex |-> 0]
        ELSE [action |-> "PLAY", cardIndex |-> pick]

\* The game context getAIMove writes into the system instruction, field by
\* field: the scores, the stake, the computer's hand, the Vira, the cards on
\* the table with who played each, the outcome of each trick, and whether a
\* side is at 11.  (The persona text depends on the difficulty prop only.)
PromptWithOpponent(g) ==
    [score |-> <<g.scoreAI, g.scorePlayer>>,
     stakes |-> g.currentStakes,
     hand |-> g.aiHand,
     opponent |-> g.playerHand,
     vira |-> g.vira,
     table |-> [i \in DOMAIN g.tableCards |->
                  <<IF g.tableCards[i].player = "ai" THEN "Me" ELSE "Opponent",
                    g.tableCards[i].card>>],
     history |-> [i \in DOMAIN g.roundWinners |->
                    IF g.roundWinners[i] = "ai" THEN "I won"
                    ELSE IF g.roundWinners[i] = "player" THEN "Opponent won"
                    ELSE "Draw"],
     gamePoint |-> (g.scoreAI >= 11 \/ g.scorePlayer >= 11)]

Prompt(g) ==
    [score |-> <<g.scoreAI, g.scorePlayer>>,
     stakes |-> g.currentStakes,
     hand |-> g.aiHand,
     vira |-> g.vira,
     table |-> [i \in DOMAIN g.tableCards |->
                  <<IF g.tableCards[i].player = "ai" THEN "Me" ELSE "Opponent",
                    g.tableCards[i].card>>],
     history |-> [i \in DOMAIN g.roundWinners |->
                    IF g.roundWinners[i] = "ai" THEN "I won"
                    ELSE IF g.roundWinners[i] = "player" THEN "Opponent won"
                    ELSE "Draw"],
     gamePoint |-> (g.scoreAI >= 11 \/ g.scorePlayer >= 11)]

\* What the choice of fallbackLogic is drawn from: whether it may propose,
\* whether the CRAZY persona is in its desperate mode (which sets
\* trucoChance), and the card indexes it draws from uniformly.
FallbackOdds(g) ==
    [canTruco |-> (g.currentStakes < 6 /\ ~(g.scoreAI >= 11)),
     desperate |-> (g.scoreAI <= g.scorePlayer),
     cards |-> 0 .. (Len(g.aiHand) - 1)]

\* Every move getAIMove(st) can resolve to: the validated remote answer, or
\* the fallback when there is no client or the call fails.
getAIMove(st) ==
    {ValidateMove(raw, st) : raw \in RawMoves}
    \cup {fallbackLogic(st, t, i) :
            t \in BOOLEAN,
            i \in 0 .. (IF st.aiHandLen = 0 THEN 0 ELSE st.aiHandLen - 1)}

----------------------------------------------------------------------------
(* components/Game.tsx: the state updaters *)

\* The outcomes of createDeck()'s shuffle that the model deals from: the
\* seven cards popped by startNewHand, in pop order (3 for the human, 3 for
\* the computer, then the Vira).
Deals ==
    { <<3, 6, 30, 13, 16, 20, 9>> }     \* 7d Kd 4c | 7s Ks 4h | vira 3d

\* A shuffle in which each card of the human meets a card of the same rank
\* in the computer's hand, so that every trick can be drawn.
DrawDeals ==
    { <<3, 4, 6, 13, 14, 16, 9>> }      \* 7d Qd Kd | 7s Qs Ks | vira 3d

\* startNewHand that always gives the lead to the human.
startNewHandHumanLeads(prev, d) ==
    [prev EXCEPT
        !.vira = d[7],
        !.playerHand = SortByPower(<<d[1], d[2], d[3]>>, d[7]),
        !.aiHand = <<d[4], d[5], d[6]>>,
        !.tableCards = <<>>,
        !.trickHistory = <<>>,
        !.currentRound = 1,
        !.roundWinners = <<"null", "null", "null">>,
        !.currentStakes = 1,
        !.lastTrucoPlayer = "null",
        !.phase = "PLAYER_TURN",
        !.turn = "player"]

startNewHand(prev, d) ==
    [prev EXCEPT
        !.vira = d[7],
        !.playerHand = SortByPower(<<d[1], d[2], d[3]>>, d[7]),
        !.aiHand = <<d[4], d[5], d[6]>>,
        !.tableCards = <<>>,
        !.trickHistory = <<>>,
        !.currentRound = 1,
        !.roundWinners = <<"null", "null", "null">>,
        !.currentStakes = 1,
        !.lastTrucoPlayer = "null",
        !.phase = "PLAYER_TURN",
        !.turn = IF (prev.scorePlayer + prev.scoreAI) % 2 = 0 THEN "player" ELSE "ai"]

\* The updater of handleAIPlayCard; index is 0-based.
handleAIPlayCard(prev, index) ==
    IF Len(prev.tableCards) >= 2 THEN prev
    ELSE IF index + 1 \notin DOMAIN prev.aiHand
    THEN \* fallback branch: hand[0] (undefined when the hand is empty), slice(1)
         [prev EXCEPT
            !.aiHand = IF prev.aiHand = <<>> THEN <<>> ELSE Tail(prev.aiHand),
            !.tableCards = Append(prev.tableCards,
                [card |-> IF prev.aiHand = <<>> THEN NoCard ELSE Head(prev.aiHand),
                 player |-> "ai", faceDown |-> FALSE]),
            !.turn = "player",
            !.phase = "PLAYER_TURN"]
    ELSE [prev EXCEPT
            !.aiHand = RemoveAt(prev.aiHand, index),
            !.tableCards = Append(prev.tableCards,
                [card |-> prev.aiHand[index + 1], player |-> "ai", faceDown |-> FALSE]),
            !.turn = "player",
            !.phase = "PLAYER_TURN"]

\* The updater of handlePlayerPlayCard; index is 0-based and names a card shown.
handlePlayerPlayCard(prev, index, faceDown) ==
    [prev EXCEPT
        !.playerHand = RemoveAt(prev.playerHand, index),
        !.tableCards = Append(prev.tableCards,
            [card |-> prev.playerHand[index + 1], player |-> "player",
             faceDown |-> faceDown]),
        !.turn = "ai"]

\* newRoundWinners[prev.currentRound - 1] = roundWinner (the array grows when
\* the index is its length).
SetWinner(rw, round, w) ==
    IF round \in DOMAIN rw THEN [rw EXCEPT ![round] = w] ELSE Append(rw, w)

\* The second updater of resolveTrick throws when the table is empty: the
\* trick is then a draw and prev.tableCards[0] is undefined.
resolveTrickThrows(prev) == prev.tableCards = <<>>

\* resolveTrick that also scores a point for the side that won the trick.
resolveTrickScores(prev) ==
    LET pPlayed == Find(prev.tableCards, "player")
        aiPlayed == Find(prev.tableCards, "ai")
        roundWinner == determineWinner(pPlayed, aiPlayed, prev.vira)
        nextTurn == IF roundWinner = "draw" THEN prev.tableCards[1].player
                    ELSE roundWinner
    IN  [prev EXCEPT
            !.roundWinners = SetWinner(prev.roundWinners, prev.currentRound, roundWinner),
            !.trickHistory = Append(prev.trickHistory, prev.tableCards),
            !.currentRound = prev.currentRound + 1,
            !.tableCards = <<>>,
            !.turn = nextTurn,
            !.phase = "PLAYER_TURN",
            !.scorePlayer = IF roundWinner = "player" THEN @ + 1 ELSE @,
            !.scoreAI = IF roundWinner = "ai" THEN @ + 1 ELSE @]

\* resolveTrick that clears the table without recording the trick.
resolveTrickForgets(prev) ==
    LET pPlayed == Find(prev.tableCards, "player")
        aiPlayed == Find(prev.tableCards, "ai")
        roundWinner == determineWinner(pPlayed, aiPlayed, prev.vira)
        nextTurn == IF roundWinner = "draw" THEN prev.tableCards[1].player
                    ELSE roundWinner
    IN  [prev EXCEPT
            !.roundWinners = SetWinner(prev.roundWinners, prev.currentRound, roundWinner),
            !.currentRound = prev.currentRound + 1,
            !.tableCards = <<>>,
            !.turn = nextTurn,
            !.phase = "PLAYER_TURN"]

resolveTrick(prev) ==
    LET pPlayed == Find(prev.tableCards, "player")
        aiPlayed == Find(prev.tableCards, "ai")
        roundWinner == determineWinner(pPlayed, aiPlayed, prev.vira)
        nextTurn == IF roundWinner = "draw" THEN prev.tableCards[1].player
                    ELSE roundWinner
    IN  [prev EXCEPT
            !.roundWinners = SetWinner(prev.roundWinners, prev.currentRound, roundWinner),
            !.trickHistory = Append(prev.trickHistory, prev.tableCards),
            !.currentRound = prev.currentRound + 1,
            !.tableCards = <<>>,
            !.turn = nextTurn,
            !.phase = "PLAYER_TURN"]

\* checkHandWinner that, after a drawn first trick, waits for the third.
checkHandWinnerLate(prev) ==
    LET rw == prev.roundWinners
        pWins == CountOf(rw, "player")
        aiWins == CountOf(rw, "ai")
        draws == CountOf(rw, "draw")
    IN  IF pWins + aiWins + draws = 0 THEN "null"
        ELSE IF pWins = 2 THEN "player"
        ELSE IF aiWins = 2 THEN "ai"
        ELSE IF draws > 0
        THEN IF rw[1] = "draw"
             THEN IF rw[3] # "null" THEN rw[3] ELSE "null"
             ELSE IF rw[2] = "draw" THEN rw[1]
                  ELSE IF rw[3] = "draw" THEN rw[1]
                  ELSE "null"
        ELSE IF prev.currentRound > 3
        THEN IF pWins > aiWins THEN "player" ELSE "ai"
        ELSE "null"

\* checkHandWinner that, after one trick each and a drawn third, gives the
\* hand to the winner of the second trick.
checkHandWinnerSecond(prev) ==
    LET rw == prev.roundWinners
        pWins == CountOf(rw, "player")
        aiWins == CountOf(rw, "ai")
        draws == CountOf(rw, "draw")
    IN  IF pWins + aiWins + draws = 0 THEN "null"
        ELSE IF pWins = 2 THEN "player"
        ELSE IF aiWins = 2 THEN "ai"
        ELSE IF draws > 0
        THEN IF rw[1] = "draw"
             THEN IF rw[2] # "null" /\ rw[2] # "draw" THEN rw[2]
                  ELSE IF rw[3] # "null" THEN rw[3]
                  ELSE "null"
             ELSE IF rw[2] = "draw" THEN rw[1]
                  ELSE IF rw[3] = "draw" THEN rw[2]
                  ELSE "null"
        ELSE IF prev.currentRound > 3
        THEN IF pWins > aiWins THEN "player" ELSE "ai"
        ELSE "null"

\* checkHandWinner that gives a hand of three drawn tricks to the side that
\* led its first trick.
checkHandWinnerLeader(prev) ==
    LET rw == prev.roundWinners
        pWins == CountOf(rw, "player")
        aiWins == CountOf(rw, "ai")
        draws == CountOf(rw, "draw")
    IN  IF pWins + aiWins + draws = 0 THEN "null"
        ELSE IF pWins = 2 THEN "player"
        ELSE IF aiWins = 2 THEN "ai"
        ELSE IF draws > 0
        THEN IF rw[1] = "draw"
             THEN IF rw[2] # "null" /\ rw[2] # "draw" THEN rw[2]
                  ELSE IF rw[3] = "draw" THEN prev.trickHistory[1][1].player
                  ELSE IF rw[3] # "null" THEN rw[3]
                  ELSE "null"
             ELSE IF rw[2] = "draw" THEN rw[1]
                  ELSE IF rw[3] = "draw" THEN rw[1]
                  ELSE "null"
        ELSE IF prev.currentRound > 3
        THEN IF pWins > aiWins THEN "player" ELSE "ai"
        ELSE "null"

\* The winner checkHandWinner hands to resolveHand, or "null" when it
\* schedules nothing.
checkHandWinner(prev) ==
    LET rw == prev.roundWinners
        pWins == CountOf(rw, "player")
        aiWins == CountOf(rw, "ai")
        draws == CountOf(rw, "draw")
    IN  IF pWins + aiWins + draws = 0 THEN "null"
        ELSE IF pWins = 2 THEN "player"
        ELSE IF aiWins = 2 THEN "ai"
        ELSE IF draws > 0
        THEN IF rw[1] = "draw"
             THEN IF rw[2] # "null" /\ rw[2] # "draw" THEN rw[2]
                  ELSE IF rw[3] # "null" THEN rw[3]
                  ELSE "null"
             ELSE IF rw[2] = "draw" THEN rw[1]
                  ELSE IF rw[3] = "draw" THEN rw[1]
                  ELSE "null"
        ELSE IF prev.currentRound > 3
        THEN IF pWins > aiWins THEN "player" ELSE "ai"
        ELSE "null"

\* resolveHand that ends the match only above MAX_SCORE.
resolveHandAbove(prev, winner) ==
    LET points == prev.currentStakes
        newScoreP == IF winner = "player" THEN prev.scorePlayer + points ELSE prev.scorePlayer
        newScoreAI == IF winner = "ai" THEN prev.scoreAI + points ELSE prev.scoreAI
    IN  IF newScoreP > MAX_SCORE \/ newScoreAI > MAX_SCORE
        THEN [prev EXCEPT !.scorePlayer = newScoreP, !.scoreAI = newScoreAI,
                          !.phase = "GAME_OVER"]
        ELSE [prev EXCEPT !.scorePlayer = newScoreP, !.scoreAI = newScoreAI,
                          !.phase = "DEALING"]

\* resolveHand that awards the rung above the current stakes.
resolveHandProposed(prev, winner) ==
    LET points == IF getAvailableTrucoAction(prev.currentStakes) # null
                  THEN getAvailableTrucoAction(prev.currentStakes)
                  ELSE prev.currentStakes
        newScoreP == IF winner = "player" THEN prev.scorePlayer + points ELSE prev.scorePlayer
        newScoreAI == IF winner = "ai" THEN prev.scoreAI + points ELSE prev.scoreAI
    IN  IF newScoreP >= MAX_SCORE \/ newScoreAI >= MAX_SCORE
        THEN [prev EXCEPT !.scorePlayer = newScoreP, !.scoreAI = newScoreAI,
                          !.phase = "GAME_OVER"]
        ELSE [prev EXCEPT !.scorePlayer = newScoreP, !.scoreAI = newScoreAI,
                          !.phase = "DEALING"]

\* resolveHand that gives a hand nobody won to the computer.
resolveHandNoPush(prev, winner) ==
    LET points == prev.currentStakes
        newScoreP == IF winner = "player" THEN prev.scorePlayer + points ELSE prev.scorePlayer
        newScoreAI == IF winner # "player" THEN prev.scoreAI + points ELSE prev.scoreAI
    IN  IF newScoreP >= MAX_SCORE \/ newScoreAI >= MAX_SCORE
        THEN [prev EXCEPT !.scorePlayer = newScoreP, !.scoreAI = newScoreAI,
                          !.phase = "GAME_OVER"]
        ELSE [prev EXCEPT !.scorePlayer = newScoreP, !.scoreAI = newScoreAI,
                          !.phase = "DEALING"]

\* The updater of resolveHand; winner is "player", "ai" or (from three
\* drawn tricks) "draw".
resolveHand(prev, winner) ==
    LET points == prev.currentStakes
        newScoreP == IF winner = "player" THEN prev.scorePlayer + points ELSE prev.scorePlayer
        newScoreAI == IF winner = "ai" THEN prev.scoreAI + points ELSE prev.scoreAI
    IN  IF newScoreP >= MAX_SCORE \/ newScoreAI >= MAX_SCORE
        THEN [prev EXCEPT !.scorePlayer = newScoreP, !.scoreAI = newScoreAI,
                          !.phase = "GAME_OVER"]
        ELSE [prev EXCEPT !.scorePlayer = newScoreP, !.scoreAI = newScoreAI,
                          !.phase = "DEALING"]

----------------------------------------------------------------------------
(* Timers, requests in flight and the React effects *)

NoSnap == [currentStakes |-> 0, scoreAI |-> 0, phase |-> "none", aiHandLen |-> 0]

\* A callback that runs no earlier than `due` and no later than `late` ticks
\* from now.
Item(kind, due, late, winner, value, st, hand, round) ==
    [kind |-> kind, due |-> due, late |-> late, winner |-> winner,
     value |-> value, st |-> st, hand |-> hand, round |-> round]

Timer(kind, ms, winner) ==
    Item(kind, Ticks(ms), Ticks(ms), winner, 0, NoSnap, 0, 0)

DealTimer == Timer("deal", DealDelayMs, "null")
TrickTimer == Timer("trick", TrickDelayMs, "null")
HandTimer(winner) == Timer("hand", HandDelayMs, winner)
\* runAITurn suspended at its awaits (300 + Math.random() * 500 ms, then
\* getAIMove); g is the state its closure captured
TurnRequest(g, hand) ==
    Item("turn", Ticks(ThinkDelayMs), Ticks(ThinkDelayMs + ThinkJitterMs) + MaxLatency,
         "null", 0, Snapshot(g), hand, g.currentRound)
\* handleAIResponseToTruco(value) suspended at its awaits (1000 ms, then
\* getAIMove)
TrucoRequest(g, value, hand) ==
    Item("truco", Ticks(TrucoDelayMs), Ticks(TrucoDelayMs) + MaxLatency,
         "null", value, [Snapshot(g) EXCEPT !.currentStakes = value], hand,
         g.currentRound)

Add(bag, e) == bag (+) SetToBag({e})
Remove(bag, e) == bag (-) SetToBag({e})

\* The render throws when a card on the table is undefined
\* (key={played.card.id}); the GAME_OVER screen does not render the table.
renderThrows(g) ==
    /\ g.phase # "GAME_OVER"
    /\ \E i \in DOMAIN g.tableCards : g.tableCards[i].card = NoCard

\* One committed update of gameState from its current value to next, and the
\* effects that run after it:
\*   Initial Deal     deps [phase]:            schedules startNewHand
\*   AI Turn Handler  deps [turn, phase, player.hand.length, tableCards.length]
\*   Resolving Round  deps [tableCards] (a new array: tableNew)
\* lock and bag are isAIProcessing and pending as the handler left them.
Commit(next, tableNew, lock, bag) ==
    LET prev == gameState
        dealFx == next.phase = "DEALING" /\ prev.phase # "DEALING"
        depsNew == <<next.turn, next.phase, Len(next.playerHand), Len(next.tableCards)>>
                   # <<prev.turn, prev.phase, Len(prev.playerHand), Len(prev.tableCards)>>
        aiFx == /\ depsNew
                /\ ~(next.turn # "ai" \/ next.phase # "PLAYER_TURN" \/ lock
                     \/ Len(next.tableCards) >= 2)
        trickFx == tableNew /\ Len(next.tableCards) = 2 /\ next.phase = "PLAYER_TURN"
        bag1 == IF dealFx THEN Add(bag, DealTimer) ELSE bag
        bag2 == IF aiFx THEN Add(bag1, TurnRequest(next, handNo')) ELSE bag1
        bag3 == IF trickFx THEN Add(bag2, TrickTimer) ELSE bag2
    IN  IF renderThrows(next)
        THEN /\ gameState' = next
             /\ isAIProcessing' = lock
             /\ pending' = bag
             /\ crashed' = TRUE
        ELSE /\ gameState' = [next EXCEPT !.phase =
                                IF aiFx THEN "AI_THINKING"
                                ELSE IF trickFx THEN "ROUND_RESULT" ELSE @]
             /\ isAIProcessing' = (lock \/ aiFx)
             /\ pending' = bag3
             /\ BagCardinality(bag3) <= MaxPending
             /\ crashed' = FALSE

Op(name, winner, hand, round) ==
    [op |-> name, resolved |-> winner, hand |-> hand, round |-> round]

----------------------------------------------------------------------------
(* Initial state: the first render of <Game>, after its effects ran *)

Init ==
    /\ gameState =
        [vira |-> NoCard, playerHand |-> <<>>, aiHand |-> <<>>,
         tableCards |-> <<>>, trickHistory |-> <<>>, currentRound |-> 1,
         roundWinners |-> <<"null", "null", "null">>,
         scorePlayer |-> 0, scoreAI |-> 0, currentStakes |-> 1,
         turn |-> "player", lastTrucoPlayer |-> "null", phase |-> "DEALING"]
    /\ isAIProcessing = FALSE
    /\ pending = SetToBag({DealTimer})
    /\ crashed = FALSE
    /\ handNo = 0
    /\ lastOp = Op("mount", "none", 0, 0)

----------------------------------------------------------------------------
(* Steps *)

Due(kind) == {e \in BagToSet(pending) : e.kind = kind /\ e.due = 0}

\* 100 ms pass, unless a callback has reached the latest time it runs at.
Tick ==
    LET S == BagToSet(pending)
        Dec(e) == [e EXCEPT !.due = IF @ > 0 THEN @ - 1 ELSE 0, !.late = @ - 1]
        T == {Dec(e) : e \in S}
        Count(y) == LET pre == {e \in S : Dec(e) = y}
                    IN  IF Cardinality(pre) = 1
                        THEN pending[CHOOSE e \in pre : TRUE]
                        ELSE pending[[y EXCEPT !.due = 0, !.late = @ + 1]]
                             + pending[[y EXCEPT !.due = 1, !.late = @ + 1]]
    IN  /\ ~crashed
        /\ S # {}
        /\ \A e \in S : e.late > 0
        /\ pending' = [y \in T |-> Count(y)]
        /\ lastOp' = Op("tick", "none", 0, 0)
        /\ UNCHANGED <<gameState, isAIProcessing, crashed, handNo>>

\* setTimeout(startNewHand, 500) fires and deals one of deals; at most
\* maxHands hands are dealt
DealFrom(maxHands, deals) ==
    /\ ~crashed
    /\ handNo < maxHands
    /\ \E e \in Due("deal"), d \in deals :
          /\ handNo' = handNo + 1
          /\ Commit(startNewHand(gameState, d), TRUE, FALSE, Remove(pending, e))
          /\ lastOp' = Op("startNewHand", "none", 0, 0)

StartNewHand(maxHands) == DealFrom(maxHands, Deals)

\* The same timer with the deck kept: createDeck() shuffled by one of the
\* draw sequences, seven cards popped off its end, the other 33 stored.
DealShuffled(maxHands) ==
    /\ ~crashed
    /\ handNo < maxHands
    /\ \E e \in Due("deal"), a \in 0 .. MaxSeed, b \in 0 .. MaxSeed :
          LET deck == createDeck(Draws(a, b))
              d == [k \in 1 .. 7 |-> deck[41 - k]]
          IN  /\ handNo' = handNo + 1
              /\ Commit([startNewHand(gameState, d) EXCEPT
                            !.deck = SubSeq(deck, 1, 33)],
                        TRUE, FALSE, Remove(pending, e))
              /\ lastOp' = Op("startNewHand", "none", 0, 0)

\* The human clicks a card of the hand (or its face-down button); indexes
\* and faceDowns are the choices the human makes use of.
PlayerPlayCard(indexes, faceDowns) ==
    /\ ~crashed
    /\ gameState.turn = "player" /\ gameState.phase = "PLAYER_TURN"
    /\ \E index \in 0 .. (Len(gameState.playerHand) - 1), faceDown \in faceDowns :
          /\ index \in indexes
          /\ faceDown => gameState.currentRound >= 2
          /\ UNCHANGED handNo
          /\ Commit(handlePlayerPlayCard(gameState, index, faceDown), TRUE,
                    isAIProcessing, pending)
          /\ lastOp' = Op("handlePlayerPlayCard", "none", 0, 0)

\* handleAIResponseToTruco(value) up to its first await, called with the
\* handler's own state g: the pair <<lock, bag>> it leaves.
AskAI(g, value) ==
    IF isAIProcessing THEN <<TRUE, pending>>
    ELSE <<TRUE, Add(pending, TrucoRequest(g, value, handNo))>>

\* The human clicks the TRUCO button.
PlayerTruco ==
    LET nextVal == getAvailableTrucoAction(gameState.currentStakes)
        ask == AskAI(gameState, nextVal)
    IN  /\ ~crashed
        /\ gameState.phase = "PLAYER_TURN" /\ gameState.turn = "player"
        /\ gameState.lastTrucoPlayer # "player"
        /\ nextVal # null
        /\ UNCHANGED handNo
        /\ Commit([gameState EXCEPT !.phase = "TRUCO_PROPOSAL_PLAYER"], FALSE,
                  ask[1], ask[2])
        /\ lastOp' = Op("handlePlayerTruco", "none", 0, 0)

\* The human answers the computer's proposal with one of the three buttons;
\* responses are the buttons the human makes use of.
PlayerRespondToTruco(responses) ==
    LET pendingValue == IF getAvailableTrucoAction(gameState.currentStakes) # null
                        THEN getAvailableTrucoAction(gameState.currentStakes) ELSE 3
        nextNextVal == getAvailableTrucoAction(pendingValue)
        ask == AskAI(gameState, nextNextVal)
    IN  /\ ~crashed
        /\ gameState.phase = "TRUCO_PROPOSAL_AI"
        /\ UNCHANGED handNo
        /\ \E response \in {"ACCEPT", "RUN", "RAISE"} \cap responses :
            \/ /\ response = "ACCEPT"
               /\ Commit([gameState EXCEPT !.currentStakes = pendingValue,
                                           !.lastTrucoPlayer = "ai",
                                           !.phase = "PLAYER_TURN",
                                           !.turn = "ai"],
                         FALSE, isAIProcessing, pending)
               /\ lastOp' = Op("playerRespondToTruco:ACCEPT", "none", 0, 0)
            \/ /\ response = "RUN"
               /\ Commit(resolveHand(gameState, "ai"), FALSE, isAIProcessing, pending)
               /\ lastOp' = Op("playerRespondToTruco:RUN", "ai", 0, 0)
            \/ /\ response = "RAISE"
               /\ nextNextVal # null
               /\ Commit([gameState EXCEPT !.currentStakes = pendingValue,
                                           !.phase = "TRUCO_PROPOSAL_PLAYER"],
                         FALSE, ask[1], ask[2])
               /\ lastOp' = Op("playerRespondToTruco:RAISE", "none", 0, 0)


\* handleAIProposeTruco, run by runAITurn with the state st its closure
\* captured: the updated state.
handleAIProposeTruco(prev, st) ==
    IF getAvailableTrucoAction(st.currentStakes) = null THEN prev
    ELSE [prev EXCEPT !.phase = "TRUCO_PROPOSAL_AI", !.turn = "player"]

\* What runAITurn does with the move it awaited.
runAITurn(prev, st, move) ==
    IF move.action = "PLAY" THEN handleAIPlayCard(prev, move.cardIndex)
    ELSE IF move.action \in {"TRUCO", "RAISE"} THEN handleAIProposeTruco(prev, st)
    ELSE IF move.action = "FOLD" THEN resolveHand(prev, "player")
    ELSE prev

\* The decision awaited by runAITurn arrives; moves are the decisions the
\* collaborator makes use of.
AITurnResponse(moves) ==
    /\ ~crashed
    /\ UNCHANGED handNo
    /\ \E e \in Due("turn") : \E move \in getAIMove(e.st) \cap moves :
          LET next == runAITurn(gameState, e.st, move)
          IN  /\ Commit(next, next.tableCards # gameState.tableCards, FALSE,
                        Remove(pending, e))
              /\ lastOp' = Op("runAITurn:" \o move.action,
                              IF move.action = "FOLD" THEN "player" ELSE "none",
                              e.hand, e.round)

\* What handleAIResponseToTruco(value) does with the move it awaited;
\* coin stands for Math.random() > 0.5.
TrucoAction(move, coin) ==
    IF move.action = "PLAY" THEN (IF coin THEN "ACCEPT" ELSE "RUN") ELSE move.action

handleAIResponseToTruco(prev, value, action) ==
    IF action = "ACCEPT"
    THEN [prev EXCEPT !.currentStakes = value, !.lastTrucoPlayer = "player",
                      !.phase = "PLAYER_TURN"]
    ELSE IF action = "RUN" THEN resolveHand(prev, "player")
    ELSE IF action \in {"RAISE", "TRUCO"}
    THEN IF getAvailableTrucoAction(value) # null
         THEN [prev EXCEPT !.currentStakes = value, !.phase = "TRUCO_PROPOSAL_AI",
                           !.lastTrucoPlayer = "ai"]
         ELSE [prev EXCEPT !.currentStakes = value, !.lastTrucoPlayer = "player",
                           !.phase = "PLAYER_TURN"]
    ELSE prev

\* The decision awaited by handleAIResponseToTruco arrives.
AITrucoResponse(moves) ==
    /\ ~crashed
    /\ UNCHANGED handNo
    /\ \E e \in Due("truco") : \E move \in getAIMove(e.st) \cap moves, coin \in BOOLEAN :
          LET action == TrucoAction(move, coin)
          IN  /\ Commit(handleAIResponseToTruco(gameState, e.value, action), FALSE,
                        FALSE, Remove(pending, e))
              /\ lastOp' = Op("handleAIResponseToTruco:" \o action,
                              IF action = "RUN" THEN "player" ELSE "none",
                              e.hand, e.round)

\* resolveTrick resumes after its 700 ms: the trick is scored, the lock is
\* released and checkHandWinner may schedule resolveHand.
ResolveTrick ==
    /\ ~crashed
    /\ UNCHANGED handNo
    /\ \E e \in Due("trick") :
          IF resolveTrickThrows(gameState)
          THEN /\ crashed' = TRUE
               /\ isAIProcessing' = FALSE
               /\ pending' = Remove(pending, e)
               /\ lastOp' = Op("resolveTrick", "none", 0, 0)
               /\ UNCHANGED gameState
          ELSE LET next == resolveTrick(gameState)
                   winner == checkHandWinner(next)
                   bag == Remove(pending, e)
               IN  /\ Commit(next, TRUE, FALSE,
                             IF winner # "null" THEN Add(bag, HandTimer(winner)) ELSE bag)
                   /\ lastOp' = Op("resolveTrick", "none", 0, 0)

\* setTimeout(() => resolveHand(winner), 100) fires
ResolveHand ==
    /\ ~crashed
    /\ UNCHANGED handNo
    /\ \E e \in Due("hand") :
          /\ Commit(resolveHand(gameState, e.winner), FALSE, isAIProcessing,
                    Remove(pending, e))
          /\ lastOp' = Op("resolveHand", e.winner, 0, 0)

----------------------------------------------------------------------------
(* Specifications *)

\* Every decision getAIMove can return.
AllMoves == [action : ActionNames, cardIndex : 0 .. 3]
AllResponses == {"ACCEPT", "RUN", "RAISE"}

\* The whole engine, one hand.
Next ==
    \/ Tick
    \/ StartNewHand(MaxHands)
    \/ PlayerPlayCard(0 .. 2, BOOLEAN)
    \/ PlayerTruco
    \/ PlayerRespondToTruco(AllResponses)
    \/ AITurnResponse(AllMoves)
    \/ AITrucoResponse(AllMoves)
    \/ ResolveTrick
    \/ ResolveHand

Spec == Init /\ [][Next]_vars

PlayMoves == {m \in AllMoves : m.action = "PLAY"}
FirstCardMoves == {m \in AllMoves : m.cardIndex = 0}

\* A match in which the human does the betting: each side plays the first
\* card of its hand, face up; on its own turn the computer only plays; the
\* human proposes and answers freely, and the computer answers the human's
\* proposals with any decision.
NextBet ==
    \/ Tick
    \/ StartNewHand(MaxHandsBet)
    \/ PlayerPlayCard({0}, {FALSE})
    \/ PlayerTruco
    \/ PlayerRespondToTruco(AllResponses)
    \/ AITurnResponse(FirstCardMoves \cap PlayMoves)
    \/ AITrucoResponse(FirstCardMoves)
    \/ ResolveTrick
    \/ ResolveHand

SpecBet == Init /\ [][NextBet]_vars

\* A match without betting: every card choice of both sides, no stake
\* proposal by the human and only PLAY decisions.
NextPlay ==
    \/ Tick
    \/ StartNewHand(MaxHandsPlay)
    \/ PlayerPlayCard(0 .. 2, BOOLEAN)
    \/ AITurnResponse(PlayMoves)
    \/ ResolveTrick
    \/ ResolveHand

SpecPlay == Init /\ [][NextPlay]_vars

\* A match in which only the computer proposes: the human plays the first
\* card of the hand face up and answers a proposal by accepting or running,
\* never by proposing or raising; the computer decides freely.
NextAI ==
    \/ Tick
    \/ StartNewHand(MaxHandsAI)
    \/ PlayerPlayCard({0}, {FALSE})
    \/ PlayerRespondToTruco({"ACCEPT", "RUN"})
    \/ AITurnResponse(AllMoves)
    \/ ResolveTrick
    \/ ResolveHand

SpecAI == Init /\ [][NextAI]_vars

\* A match without betting dealt from DrawDeals: every card choice of both
\* sides, only PLAY decisions.
NextDraw ==
    \/ Tick
    \/ DealFrom(MaxHandsDraw, DrawDeals)
    \/ PlayerPlayCard(0 .. 2, BOOLEAN)
    \/ AITurnResponse(PlayMoves)
    \/ ResolveTrick
    \/ ResolveHand

SpecDraw == Init /\ [][NextDraw]_vars

\* A match without betting dealt from DrawDeals in which the human chooses
\* each card, face up, and the computer plays the first card of its hand.
NextPush ==
    \/ Tick
    \/ DealFrom(MaxHandsPush, DrawDeals)
    \/ PlayerPlayCard(0 .. 2, {FALSE})
    \/ AITurnResponse(FirstCardMoves \cap PlayMoves)
    \/ ResolveTrick
    \/ ResolveHand

SpecPush == Init /\ [][NextPush]_vars

PlayOrFoldMoves == {m \in AllMoves : m.action \in {"PLAY", "FOLD"}}

\* A hand that either side may give up: each side plays the first card of
\* its hand, face up; the human proposes and answers freely; on its own turn
\* the computer plays or folds, and it answers the human's proposals with any
\* decision.
NextRun ==
    \/ Tick
    \/ StartNewHand(MaxHandsRun)
    \/ PlayerPlayCard({0}, {FALSE})
    \/ PlayerTruco
    \/ PlayerRespondToTruco(AllResponses)
    \/ AITurnResponse(FirstCardMoves \cap PlayOrFoldMoves)
    \/ AITrucoResponse(FirstCardMoves)
    \/ ResolveTrick
    \/ ResolveHand

SpecRun == Init /\ [][NextRun]_vars

\* The state eleven hands into a match in which, every hand, the computer
\* proposed on its first turn and the human ran: the computer has 11 points,
\* the eleventh hand (dealt from Deals, led by the human with 7d) has just
\* been resolved, and the deal of the next one is scheduled.  handNo counts
\* the hands dealt from here on.
InitEleven ==
    /\ gameState =
        [vira |-> 9, playerHand |-> <<6, 30>>, aiHand |-> <<13, 16, 20>>,
         tableCards |-> <<[card |-> 3, player |-> "player", faceDown |-> FALSE]>>,
         trickHistory |-> <<>>, currentRound |-> 1,
         roundWinners |-> <<"null", "null", "null">>,
         scorePlayer |-> 0, scoreAI |-> 11, currentStakes |-> 1,
         turn |-> "player", lastTrucoPlayer |-> "null", phase |-> "DEALING"]
    /\ isAIProcessing = FALSE
    /\ pending = SetToBag({DealTimer})
    /\ crashed = FALSE
    /\ handNo = 0
    /\ lastOp = Op("playerRespondToTruco:RUN", "ai", 0, 0)

\* The hand played with the computer at 11 points: first-card play, the
\* human proposes, the computer decides freely.
NextEleven ==
    \/ Tick
    \/ StartNewHand(MaxHandsEleven)
    \/ PlayerPlayCard({0}, {FALSE})
    \/ PlayerTruco
    \/ AITurnResponse(FirstCardMoves)
    \/ AITrucoResponse(FirstCardMoves)
    \/ ResolveTrick
    \/ ResolveHand

SpecEleven == InitEleven /\ [][NextEleven]_vars

\* The steps the JavaScript event loop takes by itself, under NextAI: time
\* passes, a timer that is due fires, a decision that is due arrives.
LiveAI ==
    /\ SpecAI
    /\ WF_vars(Tick)
    /\ WF_vars(StartNewHand(MaxHandsAI))
    /\ WF_vars(AITurnResponse(AllMoves))
    /\ WF_vars(ResolveTrick)
    /\ WF_vars(ResolveHand)

\* The same under NextBet.
LiveBet ==
    /\ SpecBet
    /\ WF_vars(Tick)
    /\ WF_vars(StartNewHand(MaxHandsBet))
    /\ WF_vars(AITurnResponse(FirstCardMoves \cap PlayMoves))
    /\ WF_vars(AITrucoResponse(FirstCardMoves))
    /\ WF_vars(ResolveTrick)
    /\ WF_vars(ResolveHand)

\* The second trick of a hand with Vira v, in which the human led c1 and the
\* computer played c2 (f1, f2: face down), with resolveTrick about to run.
\* The first trick was a draw between the diamond and the spade of the
\* lowest rank that is neither the trump rank nor the rank of v, c1 or c2;
\* each side holds one more card, of the next such rank.
Least(S) == CHOOSE x \in S : \A y \in S : x <= y
Played(c, who, faceDown) == [card |-> c, player |-> who, faceDown |-> faceDown]

SecondTrick(v, c1, c2, f1, f2) ==
    LET free == (0 .. 9) \ {getManilhaRank(RankOf(v)), RankOf(v),
                            RankOf(c1), RankOf(c2)}
        r0 == Least(free)
        r1 == Least(free \ {r0})
    IN  /\ gameState =
             [vira |-> v, playerHand |-> <<r1>>, aiHand |-> <<10 + r1>>,
              tableCards |-> <<Played(c1, "player", f1), Played(c2, "ai", f2)>>,
              trickHistory |-> << <<Played(r0, "player", FALSE),
                                    Played(10 + r0, "ai", FALSE)>> >>,
              currentRound |-> 2,
              roundWinners |-> <<"draw", "null", "null">>,
              scorePlayer |-> 0, scoreAI |-> 0, currentStakes |-> 1,
              turn |-> "player", lastTrucoPlayer |-> "null",
              phase |-> "ROUND_RESULT"]
        /\ isAIProcessing = FALSE
        /\ pending = SetToBag({[TrickTimer EXCEPT !.due = 0, !.late = 0]})
        /\ crashed = FALSE
        /\ handNo = 1
        /\ lastOp = Op("tick", "none", 0, 0)

\* determineWinner on every input: every Vira and every pair of other
\* cards, each face up or face down as PlayedCard allows.
InitTrick ==
    \E v \in Cards, f1 \in BOOLEAN, f2 \in BOOLEAN :
      \E c1 \in Cards \ {v} :
      \E c2 \in Cards \ {v, c1} : SecondTrick(v, c1, c2, f1, f2)

NextTrick == ResolveTrick

SpecTrick == InitTrick /\ [][NextTrick]_vars

\* calculatePower on every input: every Vira and every other card, played
\* face up by the human against the lowest remaining card of the deck.
InitPower ==
    \E v \in Cards :
      \E c1 \in Cards \ {v} :
        SecondTrick(v, c1, Least(Cards \ {v, c1}), FALSE, FALSE)

SpecPower == InitPower /\ [][NextTrick]_vars

\* The first render with the deck field of GameState kept.
InitDeal ==
    /\ gameState =
        [deck |-> <<>>,
         vira |-> NoCard, playerHand |-> <<>>, aiHand |-> <<>>,
         tableCards |-> <<>>, trickHistory |-> <<>>, currentRound |-> 1,
         roundWinners |-> <<"null", "null", "null">>,
         scorePlayer |-> 0, scoreAI |-> 0, currentStakes |-> 1,
         turn |-> "player", lastTrucoPlayer |-> "null", phase |-> "DEALING"]
    /\ isAIProcessing = FALSE
    /\ pending = SetToBag({DealTimer})
    /\ crashed = FALSE
    /\ handNo = 0
    /\ lastOp = Op("mount", "none", 0, 0)

\* A match without betting dealt from shuffled decks, each side playing the
\* first card of its hand face up.
NextDeal ==
    \/ Tick
    \/ DealShuffled(MaxHandsDeal)
    \/ PlayerPlayCard({0}, {FALSE})
    \/ AITurnResponse(FirstCardMoves \cap PlayMoves)
    \/ ResolveTrick
    \/ ResolveHand

SpecDeal == InitDeal /\ [][NextDeal]_vars

\* A match in which both sides propose and every proposal is accepted: each
\* side plays the first card of its hand, face up; the human proposes and
\* accepts; on its own turn the computer plays or proposes, and it accepts
\* the human's proposals.
ProposeMoves == {m \in AllMoves : m.action \in {"PLAY", "TRUCO"}}
AcceptMoves == {m \in AllMoves : m.action = "ACCEPT"}

NextLadder ==
    \/ Tick
    \/ StartNewHand(MaxHandsLadder)
    \/ PlayerPlayCard({0}, {FALSE})
    \/ PlayerTruco
    \/ PlayerRespondToTruco({"ACCEPT"})
    \/ AITurnResponse(FirstCardMoves \cap ProposeMoves)
    \/ AITrucoResponse(FirstCardMoves \cap AcceptMoves)
    \/ ResolveTrick
    \/ ResolveHand

SpecLadder == Init /\ [][NextLadder]_vars

----------------------------------------------------------------------------
(* Properties *)

\* The values of TrucoValue.
Ladder == {1, 3, 6, 9, 12}

Requests == {e \in BagToSet(pending) : e.kind \in {"turn", "truco"}}
InFlight == BagCardinality([e \in Requests |-> pending[e]])

OnTable(g, who) ==
    Cardinality({i \in DOMAIN g.tableCards : g.tableCards[i].player = who})
Resolved(g) == CountOf(g.roundWinners, "player") + CountOf(g.roundWinners, "ai")
               + CountOf(g.roundWinners, "draw")
InHand(g) == g.phase \in {"PLAYER_TURN", "AI_THINKING", "ROUND_RESULT",
                          "TRUCO_PROPOSAL_PLAYER", "TRUCO_PROPOSAL_AI"}

\* C1: the table never holds more than two cards.
TableAtMostTwo == Len(gameState.tableCards) <= 2

\* C2: the stakes are always on the ladder 1, 3, 6, 9, 12; a step other than
\* a deal never lowers them, and a deal sets them to 1.
StakesMonotone ==
    [][/\ gameState'.currentStakes \in Ladder
       /\ IF lastOp'.op = "startNewHand"
          THEN gameState'.currentStakes = 1
          ELSE gameState'.currentStakes >= gameState.currentStakes]_vars

\* C3: no side opens or escalates a stake proposal while its own score is
\* 11 or more.
NoRaiseAtEleven ==
    [][/\ lastOp'.op \in {"handlePlayerTruco", "playerRespondToTruco:RAISE"}
            => gameState.scorePlayer < 11
       /\ (/\ lastOp'.op \in {"runAITurn:TRUCO", "runAITurn:RAISE",
                              "handleAIResponseToTruco:RAISE",
                              "handleAIResponseToTruco:TRUCO"}
           /\ gameState'.phase = "TRUCO_PROPOSAL_AI"
           /\ gameState.phase # "TRUCO_PROPOSAL_AI")
            => gameState.scoreAI < 11]_vars

\* C4: between a deal and the resolution of its hand, each side's cards in
\* hand, cards on the table and resolved tricks add up to 3.
CardsAccounted ==
    (InHand(gameState) /\ ~crashed) =>
        /\ Len(gameState.playerHand) + OnTable(gameState, "player")
             + Resolved(gameState) = 3
        /\ Len(gameState.aiHand) + OnTable(gameState, "ai")
             + Resolved(gameState) = 3

\* C5: at most one decision request is in flight, and the lock is held
\* while one is.
OneRequestInFlight ==
    /\ InFlight <= 1
    /\ InFlight = 1 => isAIProcessing

\* C6: a decision awaited by runAITurn changes the game only when it is
\* still the computer's turn in the hand and trick it was requested for.
NoStaleDecision ==
    [][(/\ lastOp'.op \in {"runAITurn:PLAY", "runAITurn:TRUCO", "runAITurn:RAISE",
                           "runAITurn:FOLD"}
        /\ gameState' # gameState)
         => /\ gameState.turn = "ai"
            /\ gameState.phase \in {"AI_THINKING", "PLAYER_TURN"}
            /\ lastOp'.hand = handNo
            /\ lastOp'.round = gameState.currentRound]_vars

\* C7: from the second card of a trick until resolveTrick has scored it,
\* no step changes the hands, the table, the stakes, the scores or the turn.
Contested(g) == <<g.playerHand, g.aiHand, g.tableCards, g.currentStakes,
                  g.scorePlayer, g.scoreAI, g.turn>>

TrickAtomic ==
    [][(/\ Len(gameState.tableCards) >= 2
        /\ lastOp'.op # "resolveTrick")
         => Contested(gameState') = Contested(gameState)]_vars

\* C8: while a stake proposal is outstanding no card reaches the table and
\* no hand loses a card.
NoPlayDuringProposal ==
    [][gameState.phase \in {"TRUCO_PROPOSAL_PLAYER", "TRUCO_PROPOSAL_AI"}
         => /\ Len(gameState'.tableCards) <= Len(gameState.tableCards)
            /\ Len(gameState'.playerHand) >= Len(gameState.playerHand)
            /\ Len(gameState'.aiHand) >= Len(gameState.aiHand)]_vars

\* C9: once the phase is GAME_OVER no step changes the phase, the scores,
\* the hands, the table or the stakes.
Final(g) == <<g.phase, g.scorePlayer, g.scoreAI, g.playerHand, g.aiHand,
              g.tableCards, g.currentStakes>>

GameOverTerminal ==
    [][gameState.phase = "GAME_OVER" => Final(gameState') = Final(gameState)]_vars

\* C10: resolveHand(w) adds the current stakes to the score of w and leaves
\* the other score alone; the phase becomes GAME_OVER in that step when a score
\* is then 12 or more and DEALING otherwise; and no step enters GAME_OVER
\* with both scores below 12.
ResolveHandAwards ==
    [][/\ lastOp'.resolved = "player"
            => /\ gameState'.scorePlayer = gameState.scorePlayer + gameState.currentStakes
               /\ gameState'.scoreAI = gameState.scoreAI
       /\ lastOp'.resolved = "ai"
            => /\ gameState'.scoreAI = gameState.scoreAI + gameState.currentStakes
               /\ gameState'.scorePlayer = gameState.scorePlayer
       /\ lastOp'.resolved # "none"
            => gameState'.phase =
                 IF gameState'.scorePlayer >= MAX_SCORE \/ gameState'.scoreAI >= MAX_SCORE
                 THEN "GAME_OVER" ELSE "DEALING"
       /\ (gameState.phase # "GAME_OVER" /\ gameState'.phase = "GAME_OVER")
            => (gameState'.scorePlayer >= MAX_SCORE \/ gameState'.scoreAI >= MAX_SCORE)]_vars

\* A hand resolved for the human ends the match at exactly MAX_SCORE.
ResolveHandEndsMatch ==
    /\ lastOp.resolved = "player"
    /\ gameState.phase = "GAME_OVER"
    /\ gameState.scorePlayer = MAX_SCORE
    /\ gameState.scoreAI < MAX_SCORE

\* C11: whenever the phase is AI_THINKING it eventually is not, whatever
\* decision runAITurn receives.
ThinkingEnds ==
    (gameState.phase = "AI_THINKING" /\ ~crashed)
        ~> (gameState.phase # "AI_THINKING" \/ crashed)

\* C12: whenever the phase is TRUCO_PROPOSAL_PLAYER it eventually is not,
\* whatever decision handleAIResponseToTruco receives.
PlayerProposalEnds ==
    (gameState.phase = "TRUCO_PROPOSAL_PLAYER" /\ ~crashed)
        ~> (gameState.phase # "TRUCO_PROPOSAL_PLAYER" \/ crashed)

\* C13: the side recorded in lastTrucoPlayer opens no new stake proposal:
\* the human does not through handlePlayerTruco, nor the computer through
\* handleAIProposeTruco.
NoSelfRaise ==
    [][/\ lastOp'.op = "handlePlayerTruco"
            => gameState.lastTrucoPlayer # "player"
       /\ (/\ lastOp'.op \in {"runAITurn:TRUCO", "runAITurn:RAISE"}
           /\ gameState'.phase = "TRUCO_PROPOSAL_AI"
           /\ gameState.phase # "TRUCO_PROPOSAL_AI")
            => gameState.lastTrucoPlayer # "ai"]_vars

\* C14: opening a proposal leaves currentStakes alone, a raise makes
\* currentStakes the rung it answers, and a RUN or FOLD ends the hand in the
\* same step, adding to the other side's score the currentStakes in force and
\* nothing to the score of the side that gave up.
RunAwardsStakeInForce ==
    [][/\ lastOp'.op \in {"handlePlayerTruco", "runAITurn:TRUCO", "runAITurn:RAISE"}
            => gameState'.currentStakes = gameState.currentStakes
       /\ lastOp'.op = "playerRespondToTruco:RAISE"
            => gameState'.currentStakes = getAvailableTrucoAction(gameState.currentStakes)
       /\ lastOp'.op \in {"handleAIResponseToTruco:RUN", "runAITurn:FOLD"}
            => /\ gameState'.scorePlayer = gameState.scorePlayer + gameState.currentStakes
               /\ gameState'.scoreAI = gameState.scoreAI
               /\ gameState'.phase \in {"DEALING", "GAME_OVER"}
       /\ lastOp'.op = "playerRespondToTruco:RUN"
            => /\ gameState'.scoreAI = gameState.scoreAI + gameState.currentStakes
               /\ gameState'.scorePlayer = gameState.scorePlayer
               /\ gameState'.phase \in {"DEALING", "GAME_OVER"}]_vars

\* The computer ran from the 9 the human raised to: the human gets the 6
\* that the raise accepted.
ComputerRanFromRaise ==
    /\ lastOp.op = "handleAIResponseToTruco:RUN"
    /\ gameState.scorePlayer = 6
    /\ gameState.scoreAI = 0
    /\ gameState.phase = "DEALING"

\* C15: an ACCEPT that answers an outstanding proposal makes currentStakes
\* the ladder successor of the stakes in force, records the proposer in
\* lastTrucoPlayer, leaves both scores alone and returns to play.
AcceptSetsProposedRung ==
    [][/\ (/\ lastOp'.op = "handleAIResponseToTruco:ACCEPT"
           /\ gameState.phase = "TRUCO_PROPOSAL_PLAYER")
            => /\ gameState'.currentStakes = getAvailableTrucoAction(gameState.currentStakes)
               /\ gameState'.lastTrucoPlayer = "player"
               /\ gameState'.phase \in {"PLAYER_TURN", "AI_THINKING"}
               /\ gameState'.scorePlayer = gameState.scorePlayer
               /\ gameState'.scoreAI = gameState.scoreAI
       /\ lastOp'.op = "playerRespondToTruco:ACCEPT"
            => /\ gameState'.currentStakes = getAvailableTrucoAction(gameState.currentStakes)
               /\ gameState'.lastTrucoPlayer = "ai"
               /\ gameState'.phase \in {"PLAYER_TURN", "AI_THINKING"}
               /\ gameState'.scorePlayer = gameState.scorePlayer
               /\ gameState'.scoreAI = gameState.scoreAI]_vars

\* C16: with the computer at 11 points or more, every TRUCO or RAISE the
\* remote model returns is turned into PLAY for a request made by runAITurn
\* and into ACCEPT for a request made by handleAIResponseToTruco.
RaiseDecisions == {raw \in RawMoves : raw.action \in {"TRUCO", "RAISE"}}

ElevenOverride ==
    \A e \in Requests :
        e.st.scoreAI >= 11 =>
            \A raw \in RaiseDecisions :
                ValidateMove(raw, e.st).action =
                    IF e.kind = "turn" THEN "PLAY" ELSE "ACCEPT"

\* C17: a PLAY applied by runAITurn that changes the game takes exactly one
\* card out of the computer's hand and puts that card on the table; the
\* table never holds an absent card.
PlayMovesRealCard ==
    [][(/\ lastOp'.op = "runAITurn:PLAY"
        /\ gameState' # gameState)
         => /\ Len(gameState.aiHand) >= 1
            /\ Len(gameState'.aiHand) = Len(gameState.aiHand) - 1
            /\ Len(gameState'.tableCards) = Len(gameState.tableCards) + 1
            /\ \E i \in DOMAIN gameState.aiHand :
                  /\ gameState'.aiHand = RemoveAt(gameState.aiHand, i - 1)
                  /\ gameState'.tableCards[Len(gameState'.tableCards)].card
                       = gameState.aiHand[i]
            /\ \A i \in DOMAIN gameState'.tableCards :
                  gameState'.tableCards[i].card # NoCard]_vars

\* C18: when resolveTrick gives a side its second trick, resolveHand is
\* scheduled for that side; and from a 2-0 sweep until that resolveHand has
\* run, no card leaves a hand or reaches the table, no proposal is opened and
\* no further trick is scored.
Wins(g, who) == CountOf(g.roundWinners, who)
Swept(g) == Resolved(g) = 2 /\ (Wins(g, "player") = 2 \/ Wins(g, "ai") = 2)
HandDue == \E e \in BagToSet(pending) : e.kind = "hand"

SweepEndsHand ==
    [][/\ (lastOp'.op = "resolveTrick" /\ ~crashed')
            => \A who \in {"player", "ai"} :
                 (Wins(gameState', who) = 2 /\ Wins(gameState, who) < 2)
                    => HandTimer(who) \in BagToSet(pending')
       /\ (Swept(gameState) /\ HandDue)
            => /\ gameState'.playerHand = gameState.playerHand
               /\ gameState'.aiHand = gameState.aiHand
               /\ gameState'.tableCards = gameState.tableCards
               /\ gameState'.roundWinners = gameState.roundWinners
               /\ gameState'.phase \notin {"TRUCO_PROPOSAL_PLAYER",
                                            "TRUCO_PROPOSAL_AI"}]_vars

\* C19: after a drawn first trick, resolveTrick schedules resolveHand for
\* the winner of the second trick, or, the second being drawn too, for the
\* winner of the third, and schedules none while no such trick has been won;
\* a scheduled resolveHand is for that winner.
Sides == {"player", "ai"}
Decisive(rw) ==
    IF rw[2] \in Sides THEN rw[2]
    ELSE IF rw[2] = "draw" /\ rw[3] \in Sides THEN rw[3]
    ELSE "null"
AllDrawn(rw) == rw[1] = "draw" /\ rw[2] = "draw" /\ rw[3] = "draw"
HandTimers(bag) == {e \in BagToSet(bag) : e.kind = "hand"}

DrawnFirstTrick ==
    [][(/\ lastOp'.op = "resolveTrick"
        /\ ~crashed'
        /\ gameState'.roundWinners[1] = "draw"
        /\ ~AllDrawn(gameState'.roundWinners))
         => IF Decisive(gameState'.roundWinners) \in Sides
            THEN HandTimers(pending') = {HandTimer(Decisive(gameState'.roundWinners))}
            ELSE HandTimers(pending') = {}]_vars

\* Two drawn tricks, then a third the computer won, and the hand going to it.
ThirdTrickDecides ==
    /\ lastOp.op = "resolveTrick"
    /\ gameState.roundWinners = <<"draw", "draw", "ai">>
    /\ HandTimer("ai") \in BagToSet(pending)

\* C20: when the third trick of a hand is drawn like the first two,
\* resolveTrick schedules resolveHand('draw'); that resolveHand changes
\* neither score and sets DEALING with the next deal scheduled; and the deal
\* that follows leaves both scores as they were.
DealDue(bag) == \E e \in BagToSet(bag) : e.kind = "deal"

ThreeDrawsPush ==
    [][/\ (/\ lastOp'.op = "resolveTrick"
           /\ ~crashed'
           /\ gameState'.roundWinners = <<"draw", "draw", "draw">>)
            => HandTimers(pending') = {HandTimer("draw")}
       /\ lastOp'.resolved = "draw"
            => /\ gameState'.scorePlayer = gameState.scorePlayer
               /\ gameState'.scoreAI = gameState.scoreAI
               /\ gameState'.phase = "DEALING"
               /\ DealDue(pending')
       /\ lastOp'.op = "startNewHand"
            => /\ gameState'.scorePlayer = gameState.scorePlayer
               /\ gameState'.scoreAI = gameState.scoreAI]_vars

\* The second hand dealt after a first hand of three drawn tricks.
DealtAfterPush ==
    /\ lastOp.op = "startNewHand"
    /\ handNo = 2
    /\ gameState.scorePlayer = 0
    /\ gameState.scoreAI = 0
    /\ gameState.phase = "PLAYER_TURN"
    /\ gameState.turn = "player"

\* C21: when resolveTrick scores a drawn second trick after a first trick
\* that a side won, or a drawn third trick after the first two went to
\* different sides, it schedules resolveHand for the winner of the first
\* trick and for nobody else.
WonFirst(rw) == rw[1] \in Sides /\ rw[2] = "draw" /\ rw[3] = "null"
SplitThenDrawn(rw) ==
    rw[1] \in Sides /\ rw[2] \in Sides /\ rw[1] # rw[2] /\ rw[3] = "draw"

FirstTrickPrevails ==
    [][(/\ lastOp'.op = "resolveTrick"
        /\ ~crashed'
        /\ (WonFirst(gameState'.roundWinners)
              \/ SplitThenDrawn(gameState'.roundWinners)))
         => HandTimers(pending') = {HandTimer(gameState'.roundWinners[1])}]_vars

\* One trick each, a drawn third, and the hand going to the computer, which
\* won the first.
SplitHandToFirst ==
    /\ lastOp.op = "resolveTrick"
    /\ gameState.roundWinners = <<"ai", "player", "draw">>
    /\ HandTimers(pending) = {HandTimer("ai")}

\* The hand is still tied after three tricks: every trick is recorded, no
\* side has more wins than the other, and none of the draw rules (a drawn
\* first trick decided by a later one, a won first trick prevailing over a
\* later draw) names a winner.
DrawRuled(rw) ==
    \/ rw[1] = "draw" /\ Decisive(rw) \in Sides
    \/ rw[1] \in Sides /\ rw[2] = "draw"
    \/ SplitThenDrawn(rw)
StillTied(g) ==
    /\ Len(g.roundWinners) = 3
    /\ \A i \in 1 .. 3 : g.roundWinners[i] # "null"
    /\ Wins(g, "player") = Wins(g, "ai")
    /\ ~DrawRuled(g.roundWinners)
FirstLeader(g) == g.trickHistory[1][1].player

\* C22 as stated: when resolveTrick scores the third trick and the hand is
\* still tied, resolveHand is scheduled for the side that led the first
\* trick of the hand.
TieToFirstLeader ==
    [][(/\ lastOp'.op = "resolveTrick"
        /\ ~crashed'
        /\ StillTied(gameState'))
         => HandTimers(pending') = {HandTimer(FirstLeader(gameState'))}]_vars

\* C22: when resolveTrick scores the third trick and the hand is still
\* tied, all three tricks were drawn and resolveHand is scheduled for no
\* side (winner 'draw'), whichever side led the first trick.
TieIsPush ==
    [][(/\ lastOp'.op = "resolveTrick"
        /\ ~crashed'
        /\ StillTied(gameState'))
         => /\ AllDrawn(gameState'.roundWinners)
            /\ HandTimers(pending') = {HandTimer("draw")}]_vars

\* A hand still tied after its third trick, which the human led first.
TiedAfterThree ==
    /\ lastOp.op = "resolveTrick"
    /\ StillTied(gameState)
    /\ FirstLeader(gameState) = "player"
    /\ HandTimers(pending) = {HandTimer("draw")}

\* The trump rank of a Vira of rank r, as the rules give it: the next rank
\* in 4 5 6 7 Q J K A 2 3, and 4 after 3.
TrumpRank == [r \in 0 .. 9 |-> IF r = 9 THEN 0 ELSE r + 1]
IsTrump(c, v) == RankOf(c) = TrumpRank[RankOf(v)]

\* C23: the winner resolveTrick records for a trick with a card of each
\* side on the table is: draw when both cards are face down; the side whose
\* card is face up when exactly one is face down; otherwise the side whose
\* card has the higher power, and draw when the powers are equal; and two
\* different cards have equal powers only when they have the same rank and
\* that rank is not the trump rank.
TrickWinnerRule ==
    [][(/\ lastOp'.op = "resolveTrick"
        /\ ~crashed'
        /\ OnTable(gameState, "player") = 1
        /\ OnTable(gameState, "ai") = 1
        /\ gameState.currentRound \in DOMAIN gameState'.roundWinners)
         => LET p == Find(gameState.tableCards, "player")
                a == Find(gameState.tableCards, "ai")
                v == gameState.vira
                pp == calculatePower(p.card, v)
                pa == calculatePower(a.card, v)
                w == gameState'.roundWinners[gameState.currentRound]
            IN  /\ (p.faceDown /\ a.faceDown) => w = "draw"
                /\ (p.faceDown /\ ~a.faceDown) => w = "ai"
                /\ (~p.faceDown /\ a.faceDown) => w = "player"
                /\ (~p.faceDown /\ ~a.faceDown /\ pp > pa) => w = "player"
                /\ (~p.faceDown /\ ~a.faceDown /\ pa > pp) => w = "ai"
                /\ (~p.faceDown /\ ~a.faceDown /\ pa = pp) => w = "draw"
                /\ (pa = pp /\ p.card # a.card)
                      => /\ RankOf(p.card) = RankOf(a.card)
                         /\ ~IsTrump(p.card, v)]_vars

\* The human's clubs trump (Vira 3d, card 4c) played face down loses the
\* second trick to the computer's 5 of diamonds.
HiddenTrumpLoses ==
    /\ lastOp.op = "resolveTrick"
    /\ gameState.vira = 9
    /\ Len(gameState.trickHistory) = 2
    /\ gameState.trickHistory[2] = <<Played(30, "player", TRUE), Played(1, "ai", FALSE)>>
    /\ gameState.roundWinners[2] = "ai"

\* C24: for the Vira on the table and every card of the deck, the power is
\* 100 + the suit's place in diamonds < spades < hearts < clubs when the
\* card is of the trump rank, and the rank's place 0..9 otherwise; exactly
\* four cards have a power of 100 or more; and every trump has a higher
\* power than every card that is not a trump.
PowerRanges ==
    LET v == gameState.vira
    IN  v \in Cards =>
          /\ \A c \in Cards :
                IF IsTrump(c, v)
                THEN /\ calculatePower(c, v) = 100 + SuitOf(c)
                     /\ calculatePower(c, v) \in 100 .. 103
                ELSE /\ calculatePower(c, v) = RankOf(c)
                     /\ calculatePower(c, v) \in 0 .. 9
          /\ Cardinality({c \in Cards : calculatePower(c, v) >= 100}) = 4
          /\ \A c \in Cards, d \in Cards :
                (IsTrump(c, v) /\ ~IsTrump(d, v))
                   => calculatePower(c, v) > calculatePower(d, v)

\* With the Vira a 3, the 4 of hearts took the second trick from the 4 of
\* diamonds, the lowest trump.
FourBeatsThree ==
    /\ lastOp.op = "resolveTrick"
    /\ gameState.vira = 9
    /\ Len(gameState.trickHistory) = 2
    /\ gameState.trickHistory[2] = <<Played(20, "player", FALSE), Played(0, "ai", FALSE)>>
    /\ gameState.roundWinners[2] = "player"

\* C25: after startNewHand the deck holds 33 cards, each hand 3 and the
\* Vira is a card; these 40 cards are all different and are one card for
\* each suit and rank, so the seven dealt are distinct and createDeck
\* yielded each card of the 40 exactly once.
SeqSet(q) == {q[i] : i \in DOMAIN q}
Dealt(g) == SeqSet(g.playerHand) \cup SeqSet(g.aiHand) \cup {g.vira}

DealIsExact ==
    [][lastOp'.op = "startNewHand"
         => /\ Len(gameState'.deck) = 33
            /\ Len(gameState'.playerHand) = 3
            /\ Len(gameState'.aiHand) = 3
            /\ Cardinality(Dealt(gameState')) = 7
            /\ Cardinality(SeqSet(gameState'.deck)) = 33
            /\ SeqSet(gameState'.deck) \cap Dealt(gameState') = {}
            /\ {<<SuitOf(c), RankOf(c)>> :
                   c \in SeqSet(gameState'.deck) \cup Dealt(gameState')}
                 = (0 .. 3) \X (0 .. 9)]_vars

\* A hand dealt from a deck the shuffle has reordered.
DealtFromShuffled ==
    /\ lastOp.op = "startNewHand"
    /\ Len(gameState.deck) = 33
    /\ gameState.deck # SubSeq(UnshuffledDeck, 1, 33)
    /\ gameState.vira # 33

\* C26: getAvailableTrucoAction gives 3 for 1, 6 for 3, 9 for 6, 12 for 9
\* and nothing for 12 or any other value; and with currentStakes = 12
\* neither handlePlayerTruco nor handleAIProposeTruco (run by runAITurn on
\* a TRUCO or RAISE decision) opens a proposal.
Proposals == {"TRUCO_PROPOSAL_PLAYER", "TRUCO_PROPOSAL_AI"}
RungAfter ==
    [n \in 0 .. 13 |-> CASE n = 1 -> 3 [] n = 3 -> 6 [] n = 6 -> 9
                          [] n = 9 -> 12 [] OTHER -> null]

OtherHands == UNION {[1 .. n -> 0 .. MaxOtherCard] : n \in 0 .. 3}

RequestBlindToHand ==
    \A h \in OtherHands :
        LET other == [gameState EXCEPT !.playerHand = h]
        IN  /\ Prompt(other) = Prompt(gameState)
            /\ FallbackOdds(other) = FallbackOdds(gameState)
            /\ Snapshot(other) = Snapshot(gameState)

\* A decision has been requested while the human still holds two cards.
RequestWithHandHeld ==
    /\ lastOp.op = "handlePlayerPlayCard"
    /\ gameState.phase = "AI_THINKING"
    /\ Len(gameState.playerHand) = 2
    /\ InFlight = 1

\* C29: whenever resolveTrick scores a trick, the table holds exactly one
\* card played by the human and one played by the computer, so that
\* determineWinner is never called with a card absent; and a call with a
\* card absent records a draw.
TrickHasBothCards ==
    [][lastOp'.op = "resolveTrick"
         => /\ Len(gameState.tableCards) = 2
            /\ OnTable(gameState, "player") = 1
            /\ OnTable(gameState, "ai") = 1]_vars

\* C30: when the side answering a proposal raises and a rung above the
\* proposed one exists, the proposed rung becomes currentStakes, the
\* proposal of the next rung is outstanding towards the other side and the
\* raiser is lastTrucoPlayer; when no rung above exists, the raise leaves
\* currentStakes at most at the proposed rung.
Proposed(g) == RungAfter[g.currentStakes]
AIRaises == {"handleAIResponseToTruco:RAISE", "handleAIResponseToTruco:TRUCO"}

RaiseMovesLadder ==
    [][/\ (/\ lastOp'.op \in AIRaises
           /\ gameState.phase = "TRUCO_PROPOSAL_PLAYER"
           /\ Proposed(gameState) # null)
            => IF RungAfter[Proposed(gameState)] # null
               THEN /\ gameState'.currentStakes = Proposed(gameState)
                    /\ gameState'.phase = "TRUCO_PROPOSAL_AI"
                    /\ gameState'.lastTrucoPlayer = "ai"
               ELSE gameState'.currentStakes <= Proposed(gameState)
       /\ (/\ lastOp'.op = "playerRespondToTruco:RAISE"
           /\ Proposed(gameState) # null
           /\ RungAfter[Proposed(gameState)] # null)
            => /\ gameState'.currentStakes = Proposed(gameState)
               /\ gameState'.phase = "TRUCO_PROPOSAL_PLAYER"
               /\ gameState'.lastTrucoPlayer = "player"]_vars

\* C31: when a proposal is accepted (by the human, or by the computer
\* answering the proposal that is outstanding), the turn it leaves is not
\* the turn of a side whose card already lies in the open trick; and the
\* computer's acceptance leaves the turn with the human, who proposed on
\* the human's own turn.
Accepts == {"playerRespondToTruco:ACCEPT", "handleAIResponseToTruco:ACCEPT"}

TurnSurvivesBetting ==
    [][(/\ lastOp'.op \in Accepts
        /\ ~crashed'
        /\ gameState.phase = (IF lastOp'.op = "playerRespondToTruco:ACCEPT"
                               THEN "TRUCO_PROPOSAL_AI"
                               ELSE "TRUCO_PROPOSAL_PLAYER"))
         => /\ OnTable(gameState', gameState'.turn) = 0
            /\ lastOp'.op = "handleAIResponseToTruco:ACCEPT"
                 => gameState'.turn = gameState.turn]_vars

\* C32: in every reachable state the table holds at most one card played
\* by the human and at most one card played by the computer.
OneCardPerSide ==
    \A who \in {"player", "ai"} : OnTable(gameState, who) <= 1

\* C33: resolveHand takes effect at most once per dealt hand: a step in
\* which resolveHand awards a hand never starts in phase DEALING or
\* GAME_OVER, the phases only an earlier resolveHand of the same hand
\* leaves, so that hand is not awarded a second time before startNewHand.
AwardedOnce ==
    [][lastOp'.resolved # "none"
         => gameState.phase \notin {"DEALING", "GAME_OVER"}]_vars

\* C34: when resolveTrick decides the third trick of a hand, checkHandWinner
\* schedules resolveHand, and the state it leaves asks no side to play from
\* an empty hand: it is not the human's turn to play with no cards, and no
\* decision request is issued for a computer that holds no cards.
AskedToPlay(g, bag, who) ==
    IF who = "player"
    THEN g.phase = "PLAYER_TURN" /\ g.turn = "player"
    ELSE g.phase = "AI_THINKING" /\ g.turn = "ai"
         /\ \E e \in BagToSet(bag) :
               /\ e.kind = "turn"
               /\ e.round = g.currentRound
               /\ e.st.aiHandLen = Len(g.aiHand)
HandOf(g, who) == IF who = "player" THEN g.playerHand ELSE g.aiHand

HandEndsInThree ==
    [][(/\ lastOp'.op = "resolveTrick"
        /\ ~crashed'
        /\ Resolved(gameState) = 2
        /\ Resolved(gameState') = 3)
         => /\ HandTimers(pending') # {}
            /\ \A who \in {"player", "ai"} :
                  AskedToPlay(gameState', pending', who)
                     => HandOf(gameState', who) # <<>>]_vars

\* C35: in every state trickHistory has currentRound - 1 entries of two
\* cards each, as many as roundWinners has decided slots, the decided slots
\* are the first ones and currentRound is between 1 and 4; a resolveTrick
\* step appends the table's two cards as one entry, and until the next deal
\* the entries already recorded stay as they are.
HistoryShape(g) ==
    /\ g.currentRound \in 1 .. 4
    /\ Len(g.trickHistory) = g.currentRound - 1
    /\ Resolved(g) = g.currentRound - 1
    /\ \A i \in DOMAIN g.roundWinners :
          (g.roundWinners[i] # "null") <=> (i < g.currentRound)
    /\ \A i \in DOMAIN g.trickHistory : Len(g.trickHistory[i]) = 2

HistoryGrows ==
    /\ [](~crashed => HistoryShape(gameState))
    /\ [][~crashed'
            => /\ lastOp'.op = "resolveTrick"
                    => /\ Len(gameState.tableCards) = 2
                       /\ gameState'.trickHistory
                            = Append(gameState.trickHistory, gameState.tableCards)
               /\ lastOp'.op # "startNewHand"
                    => /\ Len(gameState'.trickHistory) >= Len(gameState.trickHistory)
                       /\ \A i \in DOMAIN gameState.trickHistory :
                             gameState'.trickHistory[i] = gameState.trickHistory[i]]_vars

\* C36: between a deal and the resolution of its hand, the three cards dealt
\* to each side are each in exactly one place among that side's hand, that
\* side's cards on the table and that side's cards in the trick history;
\* no card is in two places or with both sides, the Vira is in none of the
\* places, and no step other than a deal changes which cards a side has.
HistoryCards(g) ==
    UNION {{<<i, j>> : j \in DOMAIN g.trickHistory[i]} : i \in DOMAIN g.trickHistory}
Places(g, who) ==
    Len(HandOf(g, who)) + OnTable(g, who)
      + Cardinality({p \in HistoryCards(g) : g.trickHistory[p[1]][p[2]].player = who})
CardsOf(g, who) ==
    SeqSet(HandOf(g, who))
      \cup {g.tableCards[i].card : i \in {k \in DOMAIN g.tableCards :
                                             g.tableCards[k].player = who}}
      \cup {g.trickHistory[p[1]][p[2]].card : p \in {q \in HistoryCards(g) :
                                  g.trickHistory[q[1]][q[2]].player = who}}
Unresolved(g, bag, dead) == handNo >= 1 /\ InHand(g) /\ ~DealDue(bag) /\ ~dead

CardsConserved ==
    /\ [](Unresolved(gameState, pending, crashed)
            => /\ \A who \in {"player", "ai"} :
                     /\ Places(gameState, who) = 3
                     /\ Cardinality(CardsOf(gameState, who)) = 3
                     /\ CardsOf(gameState, who) \subseteq Cards \ {gameState.vira}
               /\ CardsOf(gameState, "player") \cap CardsOf(gameState, "ai") = {})
    /\ [][(/\ Unresolved(gameState, pending, crashed)
            /\ Unresolved(gameState', pending', crashed')
            /\ lastOp'.op # "startNewHand")
             => \A who \in {"player", "ai"} :
                   CardsOf(gameState', who) = CardsOf(gameState, who)]_vars

CardsInThreePlaces ==
    /\ Unresolved(gameState, pending, crashed)
    /\ lastOp.op = "handlePlayerPlayCard"
    /\ Resolved(gameState) = 1
    /\ Len(gameState.trickHistory) = 1
    /\ OnTable(gameState, "player") = 1
    /\ Len(gameState.playerHand) = 1
    /\ Len(gameState.aiHand) = 2

\* C37: a resolveTrick step gives the turn to the winner of the trick it
\* resolved, or after a drawn trick to the side that played the first card
\* of that trick; and in a hand that is still open the first card of the
\* next trick is played by that side.
Leader(g) ==
    LET r == g.currentRound - 1
    IN  IF g.roundWinners[r] \in Sides THEN g.roundWinners[r]
        ELSE g.trickHistory[r][1].player

WinnerLeads ==
    [][/\ (/\ lastOp'.op = "resolveTrick"
            /\ ~crashed'
            /\ Len(gameState.tableCards) = 2)
             => gameState'.turn = Leader(gameState')
       /\ (/\ lastOp'.op \in {"handlePlayerPlayCard", "runAITurn:PLAY"}
            /\ Unresolved(gameState, pending, crashed)
            /\ Unresolved(gameState', pending', crashed')
            /\ HandTimers(pending) = {}
            /\ gameState.currentRound \in 2 .. 3
            /\ Len(gameState.trickHistory) = gameState.currentRound - 1
            /\ Len(gameState.trickHistory[gameState.currentRound - 1]) = 2
            /\ gameState.tableCards = <<>>
            /\ Len(gameState'.tableCards) = 1)
             => gameState'.tableCards[1].player = Leader(gameState)]_vars

FaceDownUndisclosed ==
    (gameState.phase = "AI_THINKING" /\ InFlight >= 1 /\ ~crashed)
      => \A i \in DOMAIN gameState.tableCards :
            (gameState.tableCards[i].player = "player"
             /\ gameState.tableCards[i].faceDown)
               => \A c \in 0 .. MaxOtherCard :
                     Prompt([gameState EXCEPT !.tableCards[i].card = c])
                       = Prompt(gameState)

\* C40: the scores change only in a step in which resolveHand awards the
\* hand, and the Vira changes only in a startNewHand step; card plays, trick
\* resolution, proposals, accepts and raises leave scorePlayer, scoreAI and
\* vira as they were.
PlayAndBetOps ==
    {"handlePlayerPlayCard", "runAITurn:PLAY", "resolveTrick",
     "handlePlayerTruco", "runAITurn:TRUCO", "runAITurn:RAISE",
     "playerRespondToTruco:ACCEPT", "playerRespondToTruco:RAISE",
     "handleAIResponseToTruco:ACCEPT", "handleAIResponseToTruco:RAISE",
     "handleAIResponseToTruco:TRUCO"}
Scores(g) == <<g.scorePlayer, g.scoreAI>>

====
